---- MODULE Spec2Model ----
(***************************************************************************)
(* PDFMaster Pro API (src/main.py): the request handlers merge_pdfs,       *)
(* split_pdf, compress_pdf and unlock_pdf as a state machine.  One request *)
(* is in flight at a time (requests share no state); pc is the handler's   *)
(* position, response the HTTP response it ends with.                      *)
(*                                                                         *)
(* A Python str is a sequence of one-character strings.  A page is         *)
(* <<f, i>>: page number i (1-based) of the f-th uploaded file.            *)
(***************************************************************************)
EXTENDS Integers, Sequences, FiniteSets, TLC

\* ---------------------------------------------------------------- bounds
\* Largest page count of an uploaded document.
MaxPages == 2
\* Largest number of comma-separated tokens in a range string.
MaxTokens == 2
\* Largest number of files in one merge request.
MaxFiles == 3
\* Largest number of XObjects on one page of a document to compress.
MaxImages == 2

\* ------------------------------------------------------- Python strings
Digits == <<"0", "1", "2", "3", "4", "5", "6", "7", "8", "9">>

IsDigit(c) == \E d \in 1..10 : Digits[d] = c

DigitVal(c) == (CHOOSE d \in 1..10 : Digits[d] = c) - 1

\* str(n) for n >= 0
RECURSIVE ToStr(_)
ToStr(n) == IF n < 10 THEN <<Digits[n + 1]>>
            ELSE ToStr(n \div 10) \o <<Digits[(n % 10) + 1]>>

RECURSIVE LStrip(_)
LStrip(s) == IF s # <<>> /\ Head(s) = " " THEN LStrip(Tail(s)) ELSE s

RECURSIVE RStrip(_)
RStrip(s) == IF s # <<>> /\ s[Len(s)] = " "
             THEN RStrip(SubSeq(s, 1, Len(s) - 1)) ELSE s

\* str.strip()
Strip(s) == RStrip(LStrip(s))

\* sep in s
Contains(s, sep) == \E i \in 1..Len(s) : s[i] = sep

\* str.split(sep) for a one-character separator: always at least one part
RECURSIVE StrSplit(_, _)
StrSplit(s, sep) ==
    IF ~Contains(s, sep) THEN <<s>>
    ELSE LET i == CHOOSE j \in 1..Len(s) :
                     s[j] = sep /\ \A k \in 1..(j - 1) : s[k] # sep
         IN <<SubSeq(s, 1, i - 1)>> \o StrSplit(SubSeq(s, i + 1, Len(s)), sep)

\* int(s) succeeds: after stripping white space, a non-empty run of digits
IntOk(s) == /\ Strip(s) # <<>>
            /\ \A i \in 1..Len(Strip(s)) : IsDigit(Strip(s)[i])

RECURSIVE DigitsVal(_)
DigitsVal(s) == IF s = <<>> THEN 0
                ELSE 10 * DigitsVal(SubSeq(s, 1, Len(s) - 1)) + DigitVal(s[Len(s)])

\* int(s), where IntOk(s)
ToInt(s) == DigitsVal(Strip(s))

Max(a, b) == IF a >= b THEN a ELSE b

Min(a, b) == IF a <= b THEN a ELSE b

\* --------------------------------------------------------------- inputs
\* An uploaded document of the merge/split/compress endpoints: whether
\* PdfReader / pikepdf.open accepts the bytes, and how many pages it has.
Unparseable == [parses |-> FALSE, npages |-> 0]

PdfFile(n) == [parses |-> TRUE, npages |-> n]

PdfFiles == {Unparseable} \cup {PdfFile(n) : n \in 0..MaxPages}

\* An Optional[str] form field: None, or a string.
None == [given |-> FALSE, text |-> <<>>]

Str(t) == [given |-> TRUE, text |-> t]

\* Python truthiness of an Optional[str]: `if r`, `if password`
Truthy(r) == r.given /\ r.text # <<>>

\* Page numbers written in range tokens: below, inside and above 1..MaxPages.
TokenNums == 0..(MaxPages + 1)

WellFormedTokens ==
    {ToStr(v) : v \in TokenNums}
    \cup {ToStr(a) \o <<"-">> \o ToStr(b) : a \in TokenNums, b \in TokenNums}
    \cup {<<" ", "1", " ">>}

MalformedTokens ==
    {<<>>, <<"x">>, <<"1", "-">>, <<"1", "-", "2", "-", "1">>}

Tokens == WellFormedTokens \cup MalformedTokens

\* The range strings of exactly k comma-joined tokens.
RECURSIVE RangeTexts(_)
RangeTexts(k) ==
    IF k = 1 THEN Tokens
    ELSE {s \o <<",">> \o t : s \in RangeTexts(k - 1), t \in Tokens}

\* The partition requests of section 8 of the specification (an 8-page
\* document) next to the bounded family.
ExampleSplits ==
    {<<PdfFile(8), Str(t)>> : t \in {<<"2", "-", "5">>, <<"7", "-", "3">>,
                                     <<"9", "-", "1", "2">>, <<"0">>}}

SplitInputs ==
    ({Unparseable} \X {None})
    \cup ({PdfFile(n) : n \in 0..MaxPages}
          \X ({None} \cup {Str(t) : t \in UNION {RangeTexts(k) : k \in 1..MaxTokens}}))
    \cup ExampleSplits

\* ---------------------------------------------------------------- state
VARIABLES
    op,        \* the endpoint of the request in flight, "idle" before it
    pc,        \* position in the handler
    files,     \* the uploaded files, in request order
    ranges,    \* split_pdf: the ranges form field
    level,     \* compress_pdf: the level form field
    password,  \* unlock_pdf: the password form field
    writer,    \* pages of the current PdfWriter, in add_page order
    chunks,    \* split_pdf: the result of parse_ranges
    outputs,   \* split_pdf: the (name, document) pairs built so far
    idx,       \* loop index: file of merge_pdfs, chunk of split_pdf
    added,     \* number of add_page calls made by this request
    closed,    \* merge_pdfs: the uploads were closed (finally)
    pdf,       \* compress_pdf: the pikepdf document, page by page
    response,  \* the HTTP response
    exc,       \* the exception that ended the handler, "" if none
    missing    \* the modules whose import raised ModuleNotFoundError

vars == <<op, pc, files, ranges, level, password, writer, chunks, outputs,
          idx, added, closed, pdf, response, exc, missing>>

NoBody == [media |-> "", filename |-> "", data |-> <<>>]

NoResponse == [status |-> 0, detail |-> "", body |-> NoBody]

\* stream_bytes(data, filename, media_type)
stream_bytes(data, filename, media_type) ==
    [status |-> 200, detail |-> "",
     body |-> [media |-> media_type, filename |-> filename, data |-> data]]

\* raise HTTPException(status, detail), rendered by http_exception_handler
HTTPError(status, detail) ==
    [status |-> status, detail |-> detail, body |-> NoBody]

\* An exception that no handler code catches: the framework answers 500.
Unhandled == [status |-> 500, detail |-> "Internal Server Error", body |-> NoBody]

Init ==
    /\ op = "idle"
    /\ pc = "idle"
    /\ files = <<>>
    /\ ranges = None
    /\ level = ""
    /\ password = None
    /\ writer = <<>>
    /\ chunks = <<>>
    /\ outputs = <<>>
    /\ idx = 0
    /\ added = 0
    /\ closed = FALSE
    /\ pdf = <<>>
    /\ response = NoResponse
    /\ exc = ""
    /\ missing = {}

\* The handler ends: with a response, the exception behind it (if any) and
\* the module found missing (if any).
Finish(r, e, m) ==
    /\ pc' = "done"
    /\ response' = r
    /\ exc' = e
    /\ missing' = m

\* _require_pypdf2 and its siblings, when the import fails
MissingDependency(name) ==
    Finish(HTTPError(500, "Server missing dependency"), "HTTPException", {name})

\* ----------------------------------------------------------- split_pdf
\* One segment of the range string, as the loop body of parse_ranges reads
\* it: does it raise ValueError?
SegOk(seg) ==
    LET s == Strip(seg) IN
    IF Contains(s, "-")
    THEN LET p == StrSplit(s, "-") IN
         Len(p) = 2 /\ IntOk(p[1]) /\ IntOk(p[2])
    ELSE IntOk(s)

\* ... and the [a, b] it appends to parts
SegPart(seg, total) ==
    LET s == Strip(seg) IN
    IF Contains(s, "-")
    THEN LET p == StrSplit(s, "-") IN
         <<Max(1, ToInt(p[1])), Min(total, ToInt(p[2]))>>
    ELSE <<Max(1, ToInt(s)), Min(total, ToInt(s))>>

\* The swap left out: reversed bounds stay reversed.
Swap_Missing(ab) == ab

\* if a > b: a, b = b, a
Swap(ab) == IF ab[1] > ab[2] THEN <<ab[2], ab[1]>> ELSE ab

\* `if r is None` in place of `if not r`: the empty string is parsed.
parse_ranges_NoneOnly(r, total) ==
    IF ~r.given THEN [raised |-> FALSE, res |-> <<<<1, total>>>>]
    ELSE LET segs == StrSplit(r.text, ",") IN
         IF \E i \in 1..Len(segs) : ~SegOk(segs[i])
         THEN [raised |-> TRUE, res |-> <<>>]
         ELSE [raised |-> FALSE,
               res |-> [i \in 1..Len(segs) |-> Swap(SegPart(segs[i], total))]]

\* A malformed segment is dropped (a try/continue around the loop body)
\* instead of failing the request.
RECURSIVE GoodSegs(_)
GoodSegs(segs) ==
    IF segs = <<>> THEN <<>>
    ELSE IF SegOk(Head(segs)) THEN <<Head(segs)>> \o GoodSegs(Tail(segs))
    ELSE GoodSegs(Tail(segs))

parse_ranges_SkipBad(r, total) ==
    IF ~Truthy(r) THEN [raised |-> FALSE, res |-> <<<<1, total>>>>]
    ELSE LET segs == GoodSegs(StrSplit(r.text, ",")) IN
         [raised |-> FALSE,
          res |-> [i \in 1..Len(segs) |-> Swap(SegPart(segs[i], total))]]

\* parse_ranges(r): raised is TRUE when it raises ValueError
parse_ranges(r, total) ==
    IF ~Truthy(r) THEN [raised |-> FALSE, res |-> <<<<1, total>>>>]
    ELSE LET segs == StrSplit(r.text, ",") IN
         IF \E i \in 1..Len(segs) : ~SegOk(segs[i])
         THEN [raised |-> TRUE, res |-> <<>>]
         ELSE [raised |-> FALSE,
               res |-> [i \in 1..Len(segs) |-> Swap(SegPart(segs[i], total))]]

\* reader.pages[i] of a document of total pages: Python sequence indexing,
\* a negative index counts from the end.
IndexOk(i, total) == IF i < 0 THEN i + total >= 0 ELSE i < total

PageAt(f, i, total) == IF i < 0 THEN <<f, i + total + 1>> ELSE <<f, i + 1>>

\* range(a - 1, b) as a sequence
Range(a, b) == [k \in 1..Max(0, b - (a - 1)) |-> a - 1 + k - 1]

\* How many leading indices of rng can be read before one raises IndexError
RECURSIVE ReadablePrefix(_, _)
ReadablePrefix(rng, total) ==
    IF rng = <<>> \/ ~IndexOk(Head(rng), total) THEN 0
    ELSE 1 + ReadablePrefix(Tail(rng), total)

\* f"split_{idx}.pdf"
SplitName(i) == <<"split_", i, ".pdf">>

\* split_pdf up to and including chunks = parse_ranges(ranges)
SplitRequest ==
    /\ pc = "idle"
    /\ \E req \in SplitInputs, pypdf2 \in BOOLEAN :
        /\ op' = "split"
        /\ files' = <<req[1]>>
        /\ ranges' = req[2]
        /\ UNCHANGED <<level, password, writer, outputs, added, closed, pdf>>
        /\ IF ~pypdf2
           THEN MissingDependency("PyPDF2") /\ UNCHANGED <<chunks, idx>>
           ELSE IF ~req[1].parses
           THEN /\ Finish(HTTPError(400, "Failed to read PDF"), "HTTPException", {})
                /\ UNCHANGED <<chunks, idx>>
           ELSE LET parsed == parse_ranges(req[2], req[1].npages) IN
                IF parsed.raised
                THEN Finish(Unhandled, "ValueError", {}) /\ UNCHANGED <<chunks, idx>>
                ELSE /\ chunks' = parsed.res
                     /\ idx' = 1
                     /\ pc' = "split_loop"
                     /\ UNCHANGED <<response, exc, missing>>

\* One iteration of `for idx, (a, b) in enumerate(chunks, start=1)`
SplitChunk ==
    /\ pc = "split_loop"
    /\ idx <= Len(chunks)
    /\ LET total == files[1].npages
           rng == Range(chunks[idx][1], chunks[idx][2])
           n == ReadablePrefix(rng, total)
           copied == [k \in 1..n |-> PageAt(1, rng[k], total)]
       IN /\ writer' = copied
          /\ added' = added + n
          /\ IF n < Len(rng)
             THEN Finish(Unhandled, "IndexError", {}) /\ UNCHANGED <<outputs, idx>>
             ELSE /\ outputs' = Append(outputs, <<SplitName(idx), copied>>)
                  /\ idx' = idx + 1
                  /\ UNCHANGED <<pc, response, exc, missing>>
    /\ UNCHANGED <<op, files, ranges, level, password, chunks, closed, pdf>>

\* The response of split_pdf: the document itself, or a zip of the documents
SplitRespond ==
    /\ pc = "split_loop"
    /\ idx > Len(chunks)
    /\ IF Len(outputs) = 1
       THEN Finish(stream_bytes(outputs[1][2], outputs[1][1], "application/pdf"),
                   "", {})
       ELSE Finish(stream_bytes(outputs, "splits.zip", "application/zip"), "", {})
    /\ UNCHANGED <<op, files, ranges, level, password, writer, chunks, outputs,
                   idx, added, closed, pdf>>

\* ----------------------------------------------------------- merge_pdfs
\* The uploads of one merge request: up to MaxFiles files.
MergeInputs == UNION {[1..k -> PdfFiles] : k \in 0..MaxFiles}

\* The pages taken in reverse order.
PagesOf_Reversed(f, n) == [i \in 1..n |-> <<f, n + 1 - i>>]

\* reader.pages of the f-th upload, in original order
PagesOf(f, n) == [i \in 1..n |-> <<f, i>>]

\* merge_pdfs up to `writer = PdfWriter()`
MergeRequest ==
    /\ pc = "idle"
    /\ \E fs \in MergeInputs, pypdf2 \in BOOLEAN :
        /\ op' = "merge"
        /\ files' = fs
        /\ IF ~pypdf2
           THEN MissingDependency("PyPDF2") /\ UNCHANGED idx
           ELSE IF Len(fs) < 2
           THEN /\ Finish(HTTPError(400, "Please upload at least two PDF files to merge."),
                          "HTTPException", {})
                /\ UNCHANGED idx
           ELSE /\ idx' = 1
                /\ pc' = "merge_loop"
                /\ UNCHANGED <<response, exc, missing>>
    /\ UNCHANGED <<ranges, level, password, writer, chunks, outputs, added,
                   closed, pdf>>

\* An unreadable upload is skipped (`continue`) instead of failing the merge.
MergeFile_SkipUnreadable ==
    /\ pc = "merge_loop"
    /\ idx <= Len(files)
    /\ IF ~files[idx].parses
       THEN UNCHANGED <<writer, added>>
       ELSE /\ writer' = writer \o [i \in 1..files[idx].npages |-> <<idx, i>>]
            /\ added' = added + files[idx].npages
    /\ idx' = idx + 1
    /\ UNCHANGED <<op, pc, files, ranges, level, password, chunks, outputs,
                   closed, pdf, response, exc, missing>>

\* One iteration of `for f in files`: read, parse, add every page
MergeFile ==
    /\ pc = "merge_loop"
    /\ idx <= Len(files)
    /\ IF ~files[idx].parses
       THEN /\ Finish(HTTPError(400, "Failed to read file"), "HTTPException", {})
            /\ closed' = TRUE
            /\ UNCHANGED <<writer, added, idx>>
       ELSE /\ writer' = writer \o PagesOf(idx, files[idx].npages)
            /\ added' = added + files[idx].npages
            /\ idx' = idx + 1
            /\ UNCHANGED <<pc, response, exc, missing, closed>>
    /\ UNCHANGED <<op, files, ranges, level, password, chunks, outputs, pdf>>

\* writer.write(out), the response, and the finally clause
MergeWrite ==
    /\ pc = "merge_loop"
    /\ idx > Len(files)
    /\ Finish(stream_bytes(writer, "merged.pdf", "application/pdf"), "", {})
    /\ closed' = TRUE
    /\ UNCHANGED <<op, files, ranges, level, password, writer, chunks, outputs,
                   idx, added, pdf>>

\* ---------------------------------------------------------- unlock_pdf
\* An upload of the unlock endpoint: an encrypted document has a user
\* password (possibly empty) and an owner password.
PlainPdf(n) ==
    [parses |-> TRUE, npages |-> n, encrypted |-> FALSE,
     userPw |-> <<>>, ownerPw |-> <<>>]

LockedPdf(n, u) ==
    [parses |-> TRUE, npages |-> n, encrypted |-> TRUE,
     userPw |-> u, ownerPw |-> <<"o">>]

UnlockFiles ==
    {[parses |-> FALSE, npages |-> 0, encrypted |-> FALSE,
      userPw |-> <<>>, ownerPw |-> <<>>]}
    \cup {PlainPdf(n) : n \in 0..MaxPages}
    \cup {LockedPdf(n, u) : n \in 0..MaxPages, u \in {<<>>, <<"u">>}}

Passwords == {None} \cup {Str(t) : t \in {<<>>, <<"u">>, <<"o">>, <<"x">>}}

\* Only the user password is checked.
decrypt_UserOnly(f, pw) == IF pw = f.userPw THEN 1 ELSE 0

\* reader.decrypt(password): 0 when the password is neither the user's nor
\* the owner's
decrypt(f, pw) ==
    IF pw = f.userPw THEN 1 ELSE IF pw = f.ownerPw THEN 2 ELSE 0

\* pikepdf.open without a password opens a document whose user password is
\* empty
PikeOpens(f) == f.userPw = <<>>

\* unlock_pdf up to `writer = PdfWriter()`
UnlockRequest ==
    /\ pc = "idle"
    /\ \E f \in UnlockFiles, pw \in Passwords, pypdf2 \in BOOLEAN, pikepdf \in BOOLEAN :
        /\ op' = "unlock"
        /\ files' = <<f>>
        /\ password' = pw
        /\ IF ~pypdf2 THEN MissingDependency("PyPDF2")
           ELSE IF ~pikepdf THEN Finish(Unhandled, "ModuleNotFoundError", {"pikepdf"})
           ELSE IF ~f.parses
           THEN Finish(HTTPError(400, "Unlock failed"), "HTTPException", {})
           ELSE IF f.encrypted /\ Truthy(pw) /\ decrypt(f, pw.text) = 0
           THEN Finish(HTTPError(400, "Incorrect password"), "HTTPException", {})
           ELSE IF f.encrypted /\ ~Truthy(pw)
           THEN IF PikeOpens(f)
                THEN Finish(stream_bytes(PagesOf(1, f.npages), "unlocked.pdf",
                                         "application/pdf"), "", {})
                ELSE Finish(HTTPError(400, "Password required to unlock"),
                            "HTTPException", {})
           ELSE /\ pc' = "unlock_write"
                /\ UNCHANGED <<response, exc, missing>>
    /\ UNCHANGED <<ranges, level, writer, chunks, outputs, idx, added, closed, pdf>>

\* The pages go to a fresh writer, which is written out
UnlockWrite ==
    /\ pc = "unlock_write"
    /\ writer' = PagesOf(1, files[1].npages)
    /\ added' = added + files[1].npages
    /\ Finish(stream_bytes(writer', "unlocked.pdf", "application/pdf"), "", {})
    /\ UNCHANGED <<op, files, ranges, level, password, chunks, outputs, idx,
                   closed, pdf>>

\* -------------------------------------------------------- compress_pdf
Levels == {"low", "medium", "high", "Low", "HIGH", "best"}

\* level.lower()
Lower(l) == CASE l = "Low" -> "low" [] l = "HIGH" -> "high" [] OTHER -> l

\* int(settings['image_quality'] * 100)
Quality(l) == CASE l = "low" -> 60 [] l = "medium" -> 40 [] l = "high" -> 25

\* What a page's /XObject dictionary can hold: an image that decodes and
\* re-encodes, an image for which that raises, and an object that is no
\* image.
XObjectKinds == {"image", "broken", "form"}

\* The loop body: the XObject after the try block has run on it
Recode(kind, quality) ==
    IF kind = "image" THEN [kind |-> kind, data |-> <<"JPEG", quality>>]
    ELSE [kind |-> kind, data |-> <<"original">>]

\* compress_pdf up to `with pikepdf.open(...) as pdf`
CompressRequest ==
    /\ pc = "idle"
    /\ \E l \in Levels, parses \in BOOLEAN, pikepdf \in BOOLEAN :
        /\ op' = "compress"
        /\ files' = <<[parses |-> parses]>>
        /\ IF ~pikepdf
           THEN MissingDependency("pikepdf") /\ UNCHANGED level
           ELSE /\ level' = Lower(l)
                /\ IF Lower(l) \notin {"low", "medium", "high"}
                   THEN Finish(HTTPError(400, "level must be one of: low, medium, high"),
                               "HTTPException", {})
                   ELSE IF ~parses
                   THEN Finish(HTTPError(400, "Compression failed"), "HTTPException", {})
                   ELSE /\ pc' = "compress_pages"
                        /\ UNCHANGED <<response, exc, missing>>
    /\ UNCHANGED <<ranges, password, writer, chunks, outputs, idx, added,
                   closed, pdf>>

\* `for page in pdf.pages` reaches a further page
CompressPage ==
    /\ pc = "compress_pages"
    /\ Len(pdf) < MaxPages
    /\ pdf' = Append(pdf, <<>>)
    /\ pc' = "compress_xobjects"
    /\ UNCHANGED <<op, files, ranges, level, password, writer, chunks, outputs,
                   idx, added, closed, response, exc, missing>>

\* The inner try/except left out: an image that fails to recode reaches the
\* outer except and fails the request.
CompressXObject_Abort ==
    /\ pc = "compress_xobjects"
    /\ Len(pdf[Len(pdf)]) < MaxImages
    /\ \E kind \in XObjectKinds :
        IF kind = "broken"
        THEN /\ Finish(HTTPError(400, "Compression failed"), "HTTPException", {})
             /\ UNCHANGED pdf
        ELSE /\ pdf' = [pdf EXCEPT ![Len(pdf)] =
                            Append(@, [kind |-> kind,
                                       data |-> IF kind = "image"
                                                THEN <<"JPEG", Quality(level)>>
                                                ELSE <<"original">>])]
             /\ UNCHANGED <<pc, response, exc, missing>>
    /\ UNCHANGED <<op, files, ranges, level, password, writer, chunks,
                   outputs, idx, added, closed>>

\* One iteration of the loop over the page's XObjects
CompressXObject ==
    /\ pc = "compress_xobjects"
    /\ Len(pdf[Len(pdf)]) < MaxImages
    /\ \E kind \in XObjectKinds :
        pdf' = [pdf EXCEPT ![Len(pdf)] = Append(@, Recode(kind, Quality(level)))]
    /\ UNCHANGED <<op, pc, files, ranges, level, password, writer, chunks,
                   outputs, idx, added, closed, response, exc, missing>>

\* The page has no further XObject
CompressPageDone ==
    /\ pc = "compress_xobjects"
    /\ pc' = "compress_pages"
    /\ UNCHANGED <<op, files, ranges, level, password, writer, chunks, outputs,
                   idx, added, closed, pdf, response, exc, missing>>

\* No further page: pdf.save(out), which the outer except guards
CompressSave ==
    /\ pc = "compress_pages"
    /\ \E saved \in BOOLEAN :
        IF saved
        THEN Finish(stream_bytes(pdf, <<"compressed_", level, ".pdf">>,
                                 "application/pdf"), "", {})
        ELSE Finish(HTTPError(400, "Compression failed"), "HTTPException", {})
    /\ UNCHANGED <<op, files, ranges, level, password, writer, chunks, outputs,
                   idx, added, closed, pdf>>

Next ==
    \/ MergeRequest
    \/ MergeFile
    \/ MergeWrite
    \/ SplitRequest
    \/ SplitChunk
    \/ SplitRespond
    \/ CompressRequest
    \/ CompressPage
    \/ CompressXObject
    \/ CompressPageDone
    \/ CompressSave
    \/ UnlockRequest
    \/ UnlockWrite

Spec == Init /\ [][Next]_vars

\* ================================================================ claims
\* The segments of the range string of the request in flight
Segs == StrSplit(ranges.text, ",")

\* Pages lo..hi of the single upload, ascending
Pages(lo, hi) == [k \in 1..(hi - lo + 1) |-> <<1, lo + k - 1>>]

\* Number of pages of the uploads before the f-th
RECURSIVE Offset(_)
Offset(f) == IF f = 1 THEN 0 ELSE Offset(f - 1) + files[f - 1].npages

\* C1: a merge of k >= 2 uploads that all parse answers one document whose
\* page count is the sum of the uploads' page counts and whose pages are the
\* uploads' pages, upload after upload in request order, each upload's pages
\* in their original order.
C1_MergeConcatenates ==
    (/\ op = "merge" /\ pc = "done" /\ missing = {}
     /\ Len(files) >= 2
     /\ \A f \in 1..Len(files) : files[f].parses)
    => /\ response.status = 200
       /\ response.body.media = "application/pdf"
       /\ Len(response.body.data) = Offset(Len(files) + 1)
       /\ \A f \in 1..Len(files) : \A i \in 1..files[f].npages :
              response.body.data[Offset(f) + i] = <<f, i>>

\* Three uploads of 1, 2 and 1 pages were merged.
C1_Witness ==
    /\ op = "merge" /\ pc = "done" /\ response.status = 200
    /\ Len(files) = 3
    /\ files[1] = PdfFile(1) /\ files[2] = PdfFile(2) /\ files[3] = PdfFile(1)
    /\ response.body.data = <<<<1, 1>>, <<2, 1>>, <<2, 2>>, <<3, 1>>>>

\* C2 (as claimed): on a document of N >= 1 pages every chunk that
\* parse_ranges returns has both bounds in 1..N, so no page index outside
\* 1..N is read and no request ends in an IndexError.
C2_BoundsClamped ==
    (op = "split" /\ files[1].parses /\ files[1].npages >= 1)
    => /\ \A i \in 1..Len(chunks) :
              /\ 1 <= chunks[i][1]
              /\ chunks[i][1] <= chunks[i][2]
              /\ chunks[i][2] <= files[1].npages
       /\ exc # "IndexError"

\* C3: the document built for a token a-b with a and b in 1..N holds exactly
\* the pages min(a,b)..max(a,b) of the upload, ascending; so a-b and b-a
\* give the same document.
C3_RangeExact ==
    op = "split" =>
        \A i \in 1..Len(outputs) :
            \A a \in 1..files[1].npages, b \in 1..files[1].npages :
                Segs[i] = ToStr(a) \o <<"-">> \o ToStr(b)
                => outputs[i][2] = Pages(IF a <= b THEN a ELSE b,
                                         IF a <= b THEN b ELSE a)

\* "7-3" on an 8-page document answered pages 3..7.
C3_Witness ==
    /\ op = "split" /\ pc = "done" /\ response.status = 200
    /\ files[1].npages = 8
    /\ ranges = Str(<<"7", "-", "3">>)
    /\ response.body.data = <<<<1, 3>>, <<1, 4>>, <<1, 5>>, <<1, 6>>, <<1, 7>>>>

\* C4: a split without a range string (None or the empty string) answers
\* exactly one document, which holds all pages of the upload in order.
C4_NoRangeWholeDocument ==
    (/\ op = "split" /\ pc = "done" /\ missing = {}
     /\ files[1].parses
     /\ ~ranges.given \/ ranges.text = <<>>)
    => /\ response.status = 200
       /\ Len(outputs) = 1
       /\ response.body.media = "application/pdf"
       /\ response.body.data = Pages(1, files[1].npages)

\* The empty range string on a 2-page document answered both pages.
C4_Witness ==
    /\ op = "split" /\ pc = "done" /\ response.status = 200
    /\ ranges = Str(<<>>)
    /\ files[1].npages = 2
    /\ response.body.data = <<<<1, 1>>, <<1, 2>>>>

\* C5: when a token of the range string is malformed, the request fails
\* with no page ever added to a writer, no output document built and no
\* body in the response, whatever the other tokens are.
C5_MalformedRejectedFirst ==
    (/\ op = "split"
     /\ ranges.given /\ ranges.text # <<>>
     /\ \E i \in 1..Len(Segs) : Segs[i] \in MalformedTokens)
    => /\ added = 0
       /\ writer = <<>>
       /\ outputs = <<>>
       /\ pc = "done"
       /\ response.status >= 400
       /\ response.body = NoBody

\* "1,x": a valid token before the malformed one, and nothing was copied.
C5_Witness ==
    /\ op = "split" /\ pc = "done"
    /\ files[1].npages = 2
    /\ ranges = Str(<<"1", ",", "x">>)
    /\ response.status >= 400
    /\ added = 0

\* C6 (as claimed): a 5xx status is answered only when a module the handler
\* needs is missing.
C6_ServerErrorOnlyIfMissing ==
    (pc = "done" /\ response.status >= 500) => missing # {}

\* C7: when one of the uploads of a merge does not parse, no document is
\* ever answered, and the request ends with status 400 (500 if PyPDF2 is
\* missing).
C7_MergeAllOrNothing ==
    (op = "merge" /\ \E f \in 1..Len(files) : ~files[f].parses)
    => /\ response.body = NoBody
       /\ pc = "done" =>
              /\ response.status = (IF missing = {} THEN 400 ELSE 500)
              /\ exc = "HTTPException"

\* The third upload did not parse after the pages of the first two had been
\* added to the writer.
C7_Witness ==
    /\ op = "merge" /\ pc = "done"
    /\ Len(files) = 3
    /\ files[1].parses /\ files[2].parses /\ ~files[3].parses
    /\ added = 2
    /\ Len(writer) = 2
    /\ response.status = 400
    /\ response.body = NoBody

\* C8: with PyPDF2 and pikepdf present and an upload that parses: on an
\* encrypted document a non-empty password that is the user's or the owner's
\* answers a document with all pages, any other non-empty password answers
\* 400 "Incorrect password" and no document; on a document that is not
\* encrypted every password (or none) answers a document with the upload's
\* page count.
C8_UnlockOutcomes ==
    (op = "unlock" /\ pc = "done" /\ missing = {} /\ files[1].parses)
    => LET f == files[1]
           supplied == password.given /\ password.text # <<>>
           accepted == password.text = f.userPw \/ password.text = f.ownerPw
           whole == [i \in 1..f.npages |-> <<1, i>>]
       IN /\ (f.encrypted /\ supplied /\ accepted)
                 => response.status = 200 /\ response.body.data = whole
          /\ (f.encrypted /\ supplied /\ ~accepted)
                 => /\ response.status = 400
                    /\ response.detail = "Incorrect password"
                    /\ response.body = NoBody
          /\ ~f.encrypted
                 => /\ response.status = 200
                    /\ Len(response.body.data) = f.npages

\* The owner password unlocked a 2-page document that has a user password.
C8_Witness ==
    /\ op = "unlock" /\ pc = "done"
    /\ files[1] = LockedPdf(2, <<"u">>)
    /\ password = Str(<<"o">>)
    /\ response.status = 200
    /\ response.body.data = <<<<1, 1>>, <<1, 2>>>>

\* Every XObject the loop has passed: a recodable image holds the JPEG of
\* the level's quality, every other one its original bytes.
XObjectsAsExpected ==
    \A p \in 1..Len(pdf) : \A x \in 1..Len(pdf[p]) :
        pdf[p][x].data = (IF pdf[p][x].kind = "image"
                          THEN <<"JPEG", CASE level = "low" -> 60
                                           [] level = "medium" -> 40
                                           [] level = "high" -> 25>>
                          ELSE <<"original">>)

\* C9: an image that fails to recode keeps its original bytes and does not
\* end the request: the loop goes on, every later image that recodes is
\* recoded, and the document answered is the one so processed.
C9_ImageFailureTolerated ==
    /\ [](op = "compress" =>
            /\ XObjectsAsExpected
            /\ (pc = "done" /\ response.status = 200) => response.body.data = pdf)
    /\ [][pc = "compress_xobjects" => pc' # "done"]_vars

\* A broken image on page 1 was skipped; the image after it and the image
\* on page 2 were recoded, and the document was answered.
C9_Witness ==
    /\ op = "compress" /\ pc = "done" /\ response.status = 200
    /\ level = "medium"
    /\ Len(response.body.data) = 2
    /\ response.body.data[1] =
           <<[kind |-> "broken", data |-> <<"original">>],
             [kind |-> "image", data |-> <<"JPEG", 40>>]>>
    /\ response.body.data[2] = <<[kind |-> "image", data |-> <<"JPEG", 40>>]>>

\* C10 (as claimed): a range string of k well-formed tokens answers k
\* documents, the i-th named split_i.pdf: the document itself when k = 1, a
\* zip of the k named documents when k > 1.
C10_OneOutputPerToken ==
    (/\ op = "split" /\ pc = "done" /\ missing = {} /\ files[1].parses
     /\ ranges.given /\ ranges.text # <<>>
     /\ \A i \in 1..Len(Segs) : Segs[i] \in WellFormedTokens)
    => /\ response.status = 200
       /\ Len(outputs) = Len(Segs)
       /\ \A i \in 1..Len(outputs) : outputs[i][1] = <<"split_", i, ".pdf">>
       /\ IF Len(Segs) = 1
          THEN /\ response.body.media = "application/pdf"
               /\ response.body.data = outputs[1][2]
          ELSE /\ response.body.media = "application/zip"
               /\ response.body.data = outputs

====
